---- MODULE Spec2Model ----
(***************************************************************************)
(* Guest identity cache of oblien/core: GuestManager over InMemoryStorage  *)
(* (src/src/utils/guest-manager.js).                                       *)
(*                                                                         *)
(* A storage call is one step of a handler; in Spec every handler runs to  *)
(* completion at one clock value (the in-process backends never suspend).  *)
(* JavaScript null is Null == <<>>, a present value v is <<v>>.            *)
(*                                                                         *)
(* Spec is the resolver with session attachment, deletion and the sweep;   *)
(* SpecUpdate adds updateGuest called with a metadata bag; SpecFacade is   *)
(* the OblienChat facade (src/src/chat/index.js) over its own GuestManager,*)
(* whose createGuestSession awaits a remote call during which the clock    *)
(* may advance; SpecLookup adds the facade's getGuest. SpecResolve and     *)
(* SpecSweep are Spec without deleteGuest, the latter with updateGuest.    *)
(*                                                                         *)
(* The handlers are also given await by await (Resume, Land), over any of  *)
(* the three storage adapters. SpecRace and SpecRedis interleave the       *)
(* storage calls of several calls of GuestManager over RedisStorage, whose *)
(* every call is a round trip: SpecRace two first resolutions, SpecRedis   *)
(* three calls about one guest.                                            *)
(***************************************************************************)
EXTENDS Integers, Sequences, FiniteSets, TLC

\* ------------------------------------------------------------------ inputs
\* IPv4 addresses as their four dot-separated parts.
IPs == { <<"1", "2", "3", "4">>, <<"5", "6", "7", "8">> }
Fingerprints == { "fp_a", "fp_b" }
NoFingerprint == "null"              \* fingerprint omitted (null / undefined)
SessionIds == { "sess_1" }
\* what options.onGuestCreated does when a guest has been created; an unset
\* callback is not called, which leaves the call as one that returns does
Callbacks == { "returns", "throws" }
NoIp == <<>>                         \* options.ip omitted
\* the metadata bags handed to updateGuest
MetadataBags == { [note |-> "n"] }
Updates == { [metadata |-> m] : m \in MetadataBags }
\* what ChatSession.create does: the remote call answers with a session,
\* the remote call fails, or neither agentId nor workflowId was given
Remotes == { "created", "failed", "invalid" }

\* options.ttl, in clock ticks (one tick = one second)
Ttl == 1
\* the clock stops advancing here
MaxTime == 2

Null == <<>>
Some(v) == <<v>>
IsNull(x) == Len(x) = 0

\* the one element of a singleton
Only(S) == CHOOSE x \in S : TRUE

VARIABLES
    store,        \* InMemoryStorage.store: Map key -> value
    expirations,  \* InMemoryStorage.expirations: Map key -> expiry instant
    now,          \* Date.now(), in seconds
    inflight      \* the calls of GuestManager in flight, one per request slot

vars == <<store, expirations, now, inflight>>

\* ------------------------------------------------------------------ keys
\* faulty variant: the digest does not depend on the ip
generateGuestId_Fixed(ip) == <<"guest_", <<"0", "0", "0", "0">>>>

\* guest_<first 16 hex digits of sha256(ip)>: one id per ip, distinct ips
\* give distinct ids
generateGuestId(ip) == <<"guest_", ip>>
GuestKey(id) == <<"guest", id>>
FpKey(f) == <<"fingerprint", f>>
IpKey(ip) == <<"ip", ip>>
GuestIds == { generateGuestId(ip) : ip \in IPs }

\* faulty variant: only the last part is replaced
_maskIP_LastOnly(ip) == <<ip[1], ip[2], ip[3], "xxx">>

_maskIP(ip) == <<ip[1], ip[2], "xxx", "xxx">>

\* ------------------------------------------------------------------ Map
MapDelete(m, k) == [x \in (DOMAIN m) \ {k} |-> m[x]]
MapSet(m, k, v) == [x \in (DOMAIN m) \cup {k} |-> IF x = k THEN v ELSE m[x]]
EmptyMap == [x \in {} |-> Null]

\* ------------------------------------------------------------------ InMemoryStorage
\* st = [store, expirations]; t = Date.now()
StorageExpired(st, key, t) ==
    key \in DOMAIN st.expirations /\ t > st.expirations[key]

\* get(key): the entry is dropped when it has expired; [st, value]
StorageGet(st, key, t) ==
    IF StorageExpired(st, key, t)
    THEN [st |-> [store |-> MapDelete(st.store, key),
                  expirations |-> MapDelete(st.expirations, key)],
          value |-> Null]
    ELSE [st |-> st,
          value |-> IF key \in DOMAIN st.store THEN Some(st.store[key]) ELSE Null]

\* set(key, value, ttl)
StorageSet(st, key, value, ttl, t) ==
    [store |-> MapSet(st.store, key, value),
     expirations |-> IF ttl # 0 THEN MapSet(st.expirations, key, t + ttl)
                     ELSE st.expirations]

\* delete(key): [st, value] with value the boolean returned
StorageDelete(st, key) ==
    [st |-> [store |-> MapDelete(st.store, key),
             expirations |-> MapDelete(st.expirations, key)],
     value |-> key \in DOMAIN st.store]

\* faulty variant: expired values are returned too
StorageGetAll_IncludesExpired(st, prefix, t) ==
    { st.store[k] : k \in { x \in DOMAIN st.store : x[1] = prefix } }

\* getAll('guest:*'): the set of non-expired values under the prefix
StorageGetAll(st, prefix, t) ==
    { st.store[k] : k \in { x \in DOMAIN st.store :
                              x[1] = prefix /\ ~StorageExpired(st, x, t) } }

\* ------------------------------------------------------------------ NodeCacheStorage
\* node-cache keeps per key the value and the instant it expires at, here
\* st.store and st.expirations; useClones: false hands out the values held.
\* maxKeys: 100000 of the source, scaled to the six keys two addresses and
\* two fingerprints give rise to
MaxKeys == 5

NodeCacheExpired(st, key, t) ==
    key \in DOMAIN st.expirations /\ st.expirations[key] < t

\* get(key): this.cache.get(key) || null
NodeCacheGet(st, key, t) ==
    IF NodeCacheExpired(st, key, t)
    THEN [st |-> [store |-> MapDelete(st.store, key),
                  expirations |-> MapDelete(st.expirations, key)],
          value |-> Null]
    ELSE [st |-> st,
          value |-> IF key \in DOMAIN st.store THEN Some(st.store[key]) ELSE Null]

\* set(key, value, ttl): [st, raised]; node-cache throws when it holds
\* maxKeys keys, whether or not key is one of them
NodeCacheSet(st, key, value, ttl, t) ==
    IF Cardinality(DOMAIN st.store) >= MaxKeys
    THEN [st |-> st, raised |-> TRUE]
    ELSE [st |-> [store |-> MapSet(st.store, key, value),
                  expirations |-> MapSet(st.expirations, key,
                                         t + (IF ttl # 0 THEN ttl ELSE Ttl))],
          raised |-> FALSE]

\* delete(key): this.cache.del(key) > 0
NodeCacheDelete(st, key) ==
    [st |-> [store |-> MapDelete(st.store, key),
             expirations |-> MapDelete(st.expirations, key)],
     value |-> key \in DOMAIN st.store]

\* ------------------------------------------------------------------ RedisStorage
\* st.store is what the server holds under each key, a JSON text, and
\* st.expirations the instant the server drops the key at
JSONstringify(v) == <<"json", v>>
JSONparse(text) == text[2]

RedisExpired(st, key, t) ==
    key \in DOMAIN st.expirations /\ t > st.expirations[key]

\* get(key): data ? JSON.parse(data) : null
RedisGet(st, key, t) ==
    IF RedisExpired(st, key, t)
    THEN [st |-> [store |-> MapDelete(st.store, key),
                  expirations |-> MapDelete(st.expirations, key)],
          value |-> Null]
    ELSE [st |-> st,
          value |-> IF key \in DOMAIN st.store
                    THEN Some(JSONparse(st.store[key])) ELSE Null]

\* set(key, value, ttl): setEx with a ttl, set without
RedisSet(st, key, value, ttl, t) ==
    [store |-> MapSet(st.store, key, JSONstringify(value)),
     expirations |-> IF ttl # 0 THEN MapSet(st.expirations, key, t + ttl)
                     ELSE MapDelete(st.expirations, key)]

\* delete(key): await this.redis.del(key); return true
RedisDelete(st, key) ==
    [st |-> [store |-> MapDelete(st.store, key),
             expirations |-> MapDelete(st.expirations, key)],
     value |-> TRUE]

\* ------------------------------------------------------------------ storage calls
\* options.storage: the three adapters
Backends == { "memory", "nodecache", "redis" }

\* a call of the storage adapter, as GuestManager makes it
GetCall(key) == [kind |-> "get", key |-> key, value |-> Null]
SetCall(key, value) == [kind |-> "set", key |-> key, value |-> Some(value)]
DeleteCall(key) == [kind |-> "delete", key |-> key, value |-> Null]
NoCall == [kind |-> "none", key |-> <<>>, value |-> Null]

Answer(st, value) == [st |-> st, value |-> value, raised |-> FALSE]

PerformGet(backend, st, key, t) ==
    IF backend = "memory" THEN StorageGet(st, key, t)
    ELSE IF backend = "nodecache" THEN NodeCacheGet(st, key, t)
    ELSE RedisGet(st, key, t)

PerformSet(backend, st, key, value, t) ==
    IF backend = "memory"
    THEN Answer(StorageSet(st, key, value, Ttl, t), Some(TRUE))
    ELSE IF backend = "nodecache"
    THEN Only({ [st |-> r.st, value |-> Some(TRUE), raised |-> r.raised] :
                  r \in { NodeCacheSet(st, key, value, Ttl, t) } })
    ELSE Answer(RedisSet(st, key, value, Ttl, t), Some(TRUE))

PerformDelete(backend, st, key) ==
    IF backend = "memory" THEN StorageDelete(st, key)
    ELSE IF backend = "nodecache" THEN NodeCacheDelete(st, key)
    ELSE RedisDelete(st, key)

\* the storage call made at t on the adapter: [st, value, raised]; every
\* set GuestManager makes passes this.ttl
Perform(backend, st, call, t) ==
    IF call.kind = "get"
    THEN Only({ Answer(r.st, r.value) : r \in { PerformGet(backend, st, call.key, t) } })
    ELSE IF call.kind = "set"
    THEN PerformSet(backend, st, call.key, call.value[1], t)
    ELSE Only({ Answer(r.st, Some(r.value)) :
                  r \in { PerformDelete(backend, st, call.key) } })

\* ------------------------------------------------------------------ GuestManager
getGuest(st, guestId, t) == StorageGet(st, GuestKey(guestId), t)

\* {...guest, ...updates}
Spread(guest, updates) ==
    [f \in (DOMAIN guest) \cup (DOMAIN updates) |->
        IF f \in DOMAIN updates THEN updates[f] ELSE guest[f]]

\* faulty variant: a guest that is not stored is stored from the updates
updateGuest_Upsert(st, guestId, updates, t) ==
    LET g == StorageGet(st, GuestKey(guestId), t)
        updated == Spread(IF IsNull(g.value) THEN [id |-> guestId] ELSE g.value[1],
                          Spread(updates, [lastSeen |-> t]))
    IN [st |-> StorageSet(g.st, GuestKey(guestId), updated, Ttl, t),
        raised |-> FALSE,
        value |-> Some(updated)]

\* updateGuest(guestId, updates): [st, raised, value]
updateGuest(st, guestId, updates, t) ==
    LET g == StorageGet(st, GuestKey(guestId), t) IN
    IF IsNull(g.value)
    THEN [st |-> g.st, raised |-> TRUE, value |-> Null]
    ELSE LET updated == [Spread(g.value[1], updates) EXCEPT !.lastSeen = t] IN
         [st |-> StorageSet(g.st, GuestKey(guestId), updated, Ttl, t),
          raised |-> FALSE,
          value |-> Some(updated)]

\* faulty variant: the ip index is forgotten
_updateMappings_FingerprintOnly(st, guestId, fingerprint, ip, t) ==
    StorageSet(st, FpKey(fingerprint), guestId, Ttl, t)

_updateMappings(st, guestId, fingerprint, ip, t) ==
    StorageSet(StorageSet(st, FpKey(fingerprint), guestId, Ttl, t),
               IpKey(ip), guestId, Ttl, t)

\* [...list, x].filter(Boolean)
AppendTruthy(list, x) == IF x = NoFingerprint THEN list ELSE Append(list, x)

\* list.includes(x)
Contains(list, x) == \E i \in 1..Len(list) : list[i] = x

\* bag?.key, and bag?.key || dflt
Prop(bag, key, dflt) == IF key \in DOMAIN bag THEN bag[key] ELSE dflt

\* [...list, ip].filter(Boolean) for an ip, undefined when the bag has none
AppendTruthyIp(list, ip) == IF ip = NoIp THEN list ELSE Append(list, ip)

\* Layer 1 of findExistingGuest, entered with the fingerprint index hit
\* and the record loaded: [st, raised, guest, layer]
FoundByFingerprint(st, guest, fingerprint, ip, t) ==
    IF Prop(guest.metadata, "ip", NoIp) # ip
    THEN LET m == _updateMappings(st, guest.id, fingerprint, ip, t)
             u == updateGuest(m, guest.id,
                      [ip |-> _maskIP(ip),
                       metadata |-> Spread(guest.metadata,
                           [ip |-> ip,
                            previousIps |->
                                AppendTruthyIp(Prop(guest.metadata, "previousIps", <<>>),
                                               Prop(guest.metadata, "ip", NoIp))])], t)
         IN [st |-> u.st, raised |-> u.raised,
             guest |-> Some(guest), layer |-> "fingerprint"]
    ELSE [st |-> st, raised |-> FALSE,
          guest |-> Some(guest), layer |-> "fingerprint"]

\* Layer 2 of findExistingGuest
FoundByIp(st, guest, fingerprint, ip, t) ==
    LET m == _updateMappings(st, guest.id, fingerprint, ip, t)
        u == updateGuest(m, guest.id,
                 [metadata |-> Spread(guest.metadata,
                     [fingerprint |-> fingerprint,
                      previousFingerprints |->
                          AppendTruthy(Prop(guest.metadata, "previousFingerprints", <<>>),
                                       Prop(guest.metadata, "fingerprint",
                                            NoFingerprint))])], t)
    IN [st |-> u.st, raised |-> u.raised,
        guest |-> Some(guest), layer |-> "ip"]

NotFound(st) == [st |-> st, raised |-> FALSE, guest |-> Null, layer |-> "none"]

\* Layer 1: the fingerprint index, then the record it names
LayerFingerprint(st, fingerprint, ip, t) ==
    LET f == StorageGet(st, FpKey(fingerprint), t) IN
    IF IsNull(f.value)
    THEN NotFound(f.st)
    ELSE LET g == getGuest(f.st, f.value[1], t) IN
         IF IsNull(g.value)
         THEN NotFound(g.st)
         ELSE FoundByFingerprint(g.st, g.value[1], fingerprint, ip, t)

\* faulty variant: the ip lookup never finds anything
LayerIp_NeverFound(st, fingerprint, ip, t) == NotFound(st)

\* faulty variant: an ip index entry whose record is gone is updated all the same,
\* and updateGuest throws "Guest not found"
LayerIp_StaleRaises(st, fingerprint, ip, t) ==
    LET i == StorageGet(st, IpKey(ip), t) IN
    IF IsNull(i.value)
    THEN NotFound(i.st)
    ELSE LET g == getGuest(i.st, i.value[1], t) IN
         IF IsNull(g.value)
         THEN [st |-> g.st, raised |-> TRUE, guest |-> Null, layer |-> "ip"]
         ELSE FoundByIp(g.st, g.value[1], fingerprint, ip, t)

\* Layer 2: the ip index, then the record it names
LayerIp(st, fingerprint, ip, t) ==
    LET i == StorageGet(st, IpKey(ip), t) IN
    IF IsNull(i.value)
    THEN NotFound(i.st)
    ELSE LET g == getGuest(i.st, i.value[1], t) IN
         IF IsNull(g.value)
         THEN NotFound(g.st)
         ELSE FoundByIp(g.st, g.value[1], fingerprint, ip, t)

\* faulty variant: the fingerprint layer is skipped
findExistingGuest_IpOnly(st, fingerprint, ip, t) ==
    LayerIp(st, fingerprint, ip, t)

\* faulty variant: the layers are tried in the other order
findExistingGuest_IpFirst(st, fingerprint, ip, t) ==
    LET i == LayerIp(st, fingerprint, ip, t) IN
    IF i.raised \/ ~IsNull(i.guest)
    THEN i
    ELSE LayerFingerprint(i.st, fingerprint, ip, t)

\* findExistingGuest(fingerprint, ip): the guest returned is the object read
\* before updateGuest stored its changed copy
findExistingGuest(st, fingerprint, ip, t) ==
    LET f == LayerFingerprint(st, fingerprint, ip, t) IN
    IF f.raised \/ ~IsNull(f.guest)
    THEN f
    ELSE LayerIp(f.st, fingerprint, ip, t)

NewGuest(ip, fingerprint, t) ==
    [id |-> generateGuestId(ip),
     namespace |-> generateGuestId(ip),
     ip |-> _maskIP(ip),
     isGuest |-> TRUE,
     createdAt |-> t,
     lastSeen |-> t,
     metadata |-> [ip |-> ip, fingerprint |-> fingerprint,
                   previousIps |-> <<>>, previousFingerprints |-> <<>>],
     sessions |-> <<>>]

\* faulty variant: without a fingerprint no mapping is stored
CreateGuest_NoFallbackMapping(st, ip, fingerprint, cb, t) ==
    LET guest == NewGuest(ip, fingerprint, t)
        s1 == StorageSet(st, GuestKey(guest.id), guest, Ttl, t)
        s2 == IF fingerprint # NoFingerprint
              THEN _updateMappings(s1, guest.id, fingerprint, ip, t)
              ELSE s1
    IN [st |-> s2,
        outcome |-> IF cb = "throws" THEN "raised" ELSE "returned",
        error |-> IF cb = "throws" THEN "callback" ELSE "none",
        guest |-> Some(guest),
        created |-> TRUE, layer |-> "none"]

\* the "Create new guest" part of getOrCreateGuest; onGuestCreated is called
\* last and outside any try: when it throws the call raises, and guest is
\* the record stored, which the caller does not get
CreateGuest(st, ip, fingerprint, cb, t) ==
    LET guest == NewGuest(ip, fingerprint, t)
        s1 == StorageSet(st, GuestKey(guest.id), guest, Ttl, t)
        s2 == IF fingerprint # NoFingerprint
              THEN _updateMappings(s1, guest.id, fingerprint, ip, t)
              ELSE StorageSet(s1, IpKey(ip), guest.id, Ttl, t)
    IN [st |-> s2,
        outcome |-> IF cb = "throws" THEN "raised" ELSE "returned",
        error |-> IF cb = "throws" THEN "callback" ELSE "none",
        guest |-> Some(guest),
        created |-> TRUE, layer |-> "none"]

\* the existing guest gets a new lastSeen and is stored
Touch(st, guest, layer, t) ==
    LET g == [guest EXCEPT !.lastSeen = t] IN
    [st |-> StorageSet(st, GuestKey(g.id), g, Ttl, t),
     outcome |-> "returned", error |-> "none", guest |-> Some(g),
     created |-> FALSE, layer |-> layer]

\* getOrCreateGuest(ip, fingerprint): [st, outcome, error, guest, created,
\* layer]; guest is returned when outcome = "returned"
getOrCreateGuest(st, ip, fingerprint, cb, t) ==
    IF fingerprint # NoFingerprint
    THEN LET e == findExistingGuest(st, fingerprint, ip, t) IN
         IF e.raised
         THEN [st |-> e.st, outcome |-> "raised", error |-> "not-found",
               guest |-> Null, created |-> FALSE, layer |-> e.layer]
         ELSE IF ~IsNull(e.guest)
         THEN Touch(e.st, e.guest[1], e.layer, t)
         ELSE CreateGuest(e.st, ip, fingerprint, cb, t)
    ELSE LET i == StorageGet(st, IpKey(ip), t) IN
         IF IsNull(i.value)
         THEN CreateGuest(i.st, ip, fingerprint, cb, t)
         ELSE LET g == getGuest(i.st, i.value[1], t) IN
              IF IsNull(g.value)
              THEN CreateGuest(g.st, ip, fingerprint, cb, t)
              ELSE Touch(g.st, g.value[1], "ip", t)

\* faulty variant: the session id is pushed whether or not the list has it
addSession_AlwaysPush(st, guestId, sessionId, t) ==
    LET g == StorageGet(st, GuestKey(guestId), t) IN
    IF IsNull(g.value)
    THEN [st |-> g.st, outcome |-> "raised", guest |-> Null]
    ELSE LET old == g.value[1]
             guest == [old EXCEPT !.sessions = Append(old.sessions, sessionId),
                                  !.lastSeen = t]
         IN [st |-> StorageSet(g.st, GuestKey(guestId), guest, Ttl, t),
             outcome |-> "returned", guest |-> Some(guest)]

\* addSession(guestId, sessionId): [st, outcome, guest]
addSession(st, guestId, sessionId, t) ==
    LET g == StorageGet(st, GuestKey(guestId), t) IN
    IF IsNull(g.value)
    THEN [st |-> g.st, outcome |-> "raised", guest |-> Null]
    ELSE LET old == g.value[1]
             pushed == IF \E i \in 1..Len(old.sessions) : old.sessions[i] = sessionId
                       THEN old.sessions
                       ELSE Append(old.sessions, sessionId)
             guest == [old EXCEPT !.sessions = pushed, !.lastSeen = t]
         IN [st |-> StorageSet(g.st, GuestKey(guestId), guest, Ttl, t),
             outcome |-> "returned", guest |-> Some(guest)]


getAllGuests(st, t) == StorageGetAll(st, "guest", t)

\* faulty variant: nothing is deleted
cleanup_KeepsAll(st, t) == [st |-> st, value |-> 0]

deleteGuest(st, guestId) == StorageDelete(st, GuestKey(guestId))

\* cleanup(): [st, value] with value the number of guests deleted
cleanup(st, t) ==
    LET old == { g \in getAllGuests(st, t) : t - g.lastSeen > Ttl } IN
    [st |-> [store |-> [k \in (DOMAIN st.store) \ { GuestKey(g.id) : g \in old }
                           |-> st.store[k]],
             expirations |-> [k \in (DOMAIN st.expirations)
                                   \ { GuestKey(g.id) : g \in old }
                               |-> st.expirations[k]]],
     value |-> Cardinality(old)]

\* ------------------------------------------------------------------ GuestManager, await by await
\* A call of GuestManager in flight has run up to a storage call and waits
\* for its answer: c.call is that storage call and c.pc names the await the
\* handler resumes from. The code between two awaits runs when the answer
\* arrives, which is taken to be the instant the storage call is performed.
\* c.shared: the guest the handler holds is the object the adapter holds
\* (InMemoryStorage and node-cache with useClones: false hand out what they
\* hold, RedisStorage parses a new object).
Idle ==
    [op |-> "none", pc |-> "idle", ip |-> NoIp, fingerprint |-> NoFingerprint,
     cb |-> "returns", guestId |-> <<>>, sessionId |-> "none", updates |-> Null,
     guest |-> Null, shared |-> FALSE, layer |-> "none", call |-> NoCall,
     outcome |-> "idle", error |-> "none", result |-> Null, created |-> FALSE]

Await(c, pc, call) == [c EXCEPT !.pc = pc, !.call = call, !.outcome = "running"]

\* the call is over: what it held is dropped
Settled(c, outcome, error, result) ==
    [c EXCEPT !.pc = "done", !.call = NoCall, !.guest = Null, !.shared = FALSE,
              !.updates = Null, !.outcome = outcome, !.error = error,
              !.result = result]

Return(c, value) == Settled(c, "returned", "none", Some(value))
Raise(c, error) == Settled(c, "raised", error, Null)

\* getOrCreateGuest(ip, fingerprint) up to its first await
StartGetOrCreateGuest(ip, fingerprint, cb) ==
    LET c == [Idle EXCEPT !.op = "getOrCreateGuest", !.ip = ip,
                          !.fingerprint = fingerprint, !.cb = cb]
    IN IF fingerprint # NoFingerprint
       THEN Await(c, "findByFingerprint", GetCall(FpKey(fingerprint)))
       ELSE Await(c, "findByIpOnly", GetCall(IpKey(ip)))

StartAddSession(guestId, sessionId) ==
    Await([Idle EXCEPT !.op = "addSession", !.guestId = guestId,
                       !.sessionId = sessionId],
          "addSessionGet", GetCall(GuestKey(guestId)))

StartUpdateGuest(guestId, updates) ==
    Await([Idle EXCEPT !.op = "updateGuest", !.guestId = guestId,
                       !.updates = Some(updates)],
          "updateGet", GetCall(GuestKey(guestId)))

StartDeleteGuest(guestId) ==
    Await([Idle EXCEPT !.op = "deleteGuest", !.guestId = guestId],
          "delete", DeleteCall(GuestKey(guestId)))

\* existingGuest.lastSeen = new Date(); storage.set(guest:<id>, existingGuest)
IssueTouch(c, t) ==
    LET g == [c.guest[1] EXCEPT !.lastSeen = t] IN
    Await([c EXCEPT !.guest = Some(g)], "touch", SetCall(GuestKey(g.id), g))

\* "Create new guest": the record is built and its set is called
IssueCreate(c, t) ==
    LET g == NewGuest(c.ip, c.fingerprint, t) IN
    Await([c EXCEPT !.guest = Some(g), !.shared = FALSE], "create",
          SetCall(GuestKey(g.id), g))

\* findExistingGuest with the record found: _updateMappings is called, and
\* the updates updateGuest will be given are those built from guest
IssueMappings(c, guest, layer, updates) ==
    Await([c EXCEPT !.guest = Some(guest), !.shared = TRUE, !.layer = layer,
                    !.guestId = guest.id, !.updates = Some(updates)],
          "mapFingerprint", SetCall(FpKey(c.fingerprint), guest.id))

\* Layer 1 of findExistingGuest: the record the fingerprint index names
\* has been read
AfterGetByFingerprint(c, answer, t) ==
    IF IsNull(answer)
    THEN Await(c, "findByIp", GetCall(IpKey(c.ip)))
    ELSE IF Prop(answer[1].metadata, "ip", NoIp) # c.ip
    THEN IssueMappings(c, answer[1], "fingerprint",
             [ip |-> _maskIP(c.ip),
              metadata |-> Spread(answer[1].metadata,
                  [ip |-> c.ip,
                   previousIps |->
                       AppendTruthyIp(Prop(answer[1].metadata, "previousIps", <<>>),
                                      Prop(answer[1].metadata, "ip", NoIp))])])
    ELSE IssueTouch([c EXCEPT !.guest = answer, !.shared = TRUE,
                              !.layer = "fingerprint"], t)

\* Layer 2 of findExistingGuest: the record the ip index names has been read
AfterGetByIp(c, answer, t) ==
    IF IsNull(answer)
    THEN IssueCreate(c, t)
    ELSE IssueMappings(c, answer[1], "ip",
             [metadata |-> Spread(answer[1].metadata,
                  [fingerprint |-> c.fingerprint,
                   previousFingerprints |->
                       AppendTruthy(Prop(answer[1].metadata, "previousFingerprints", <<>>),
                                    Prop(answer[1].metadata, "fingerprint",
                                         NoFingerprint))])])

\* updateGuest: the record has been read
AfterUpdateGet(c, answer, t) ==
    IF IsNull(answer)
    THEN Raise(c, "not-found")
    ELSE Await(c, "updateSet",
               SetCall(GuestKey(c.guestId),
                       [Spread(answer[1], c.updates[1]) EXCEPT !.lastSeen = t]))

\* addSession: the record has been read
AfterAddSessionGet(c, answer, t) ==
    IF IsNull(answer)
    THEN Raise(c, "not-found")
    ELSE LET g == [answer[1] EXCEPT
                       !.sessions = IF Contains(answer[1].sessions, c.sessionId)
                                    THEN answer[1].sessions
                                    ELSE Append(answer[1].sessions, c.sessionId),
                       !.lastSeen = t]
         IN Await([c EXCEPT !.guest = Some(g), !.shared = TRUE], "addSessionSet",
                  SetCall(GuestKey(c.guestId), g))

\* the new record has been stored: "Store mappings"
AfterCreate(c) ==
    IF c.fingerprint # NoFingerprint
    THEN Await([c EXCEPT !.created = TRUE], "createMapFingerprint",
               SetCall(FpKey(c.fingerprint), c.guest[1].id))
    ELSE Await([c EXCEPT !.created = TRUE], "createMapIp",
               SetCall(IpKey(c.ip), c.guest[1].id))

\* the mappings of the new record have been stored: onGuestCreated, return
AfterCreateMappings(c) ==
    IF c.cb = "throws" THEN Raise(c, "callback") ELSE Return(c, c.guest[1])

\* the handler resumes from the await c.pc with the answer of its storage
\* call, at t, and runs to its next await or to its end
Resume(c, answer, t) ==
    CASE c.pc = "findByFingerprint" ->
             IF IsNull(answer)
             THEN Await(c, "findByIp", GetCall(IpKey(c.ip)))
             ELSE Await(c, "getByFingerprint", GetCall(GuestKey(answer[1])))
      [] c.pc = "getByFingerprint" -> AfterGetByFingerprint(c, answer, t)
      [] c.pc = "findByIp" ->
             IF IsNull(answer)
             THEN IssueCreate(c, t)
             ELSE Await(c, "getByIp", GetCall(GuestKey(answer[1])))
      [] c.pc = "getByIp" -> AfterGetByIp(c, answer, t)
      [] c.pc = "mapFingerprint" ->
             Await(c, "mapIp", SetCall(IpKey(c.ip), c.guestId))
      [] c.pc = "mapIp" -> Await(c, "updateGet", GetCall(GuestKey(c.guestId)))
      [] c.pc = "updateGet" -> AfterUpdateGet(c, answer, t)
      [] c.pc = "updateSet" ->
             IF c.op = "updateGuest"
             THEN Return(c, c.call.value[1])
             ELSE IssueTouch([c EXCEPT !.shared = FALSE], t)
      [] c.pc = "touch" -> Return(c, c.guest[1])
      [] c.pc = "findByIpOnly" ->
             IF IsNull(answer)
             THEN IssueCreate(c, t)
             ELSE Await(c, "getByIpOnly", GetCall(GuestKey(answer[1])))
      [] c.pc = "getByIpOnly" ->
             IF IsNull(answer)
             THEN IssueCreate(c, t)
             ELSE IssueTouch([c EXCEPT !.guest = answer, !.shared = TRUE,
                                       !.layer = "ip"], t)
      [] c.pc = "create" -> AfterCreate(c)
      [] c.pc = "createMapFingerprint" ->
             Await(c, "createMapIp", SetCall(IpKey(c.ip), c.guest[1].id))
      [] c.pc = "createMapIp" -> AfterCreateMappings(c)
      [] c.pc = "addSessionGet" -> AfterAddSessionGet(c, answer, t)
      [] c.pc = "addSessionSet" -> Return(c, c.guest[1])
      [] c.pc = "delete" -> Return(c, answer[1])

\* a set that throws leaves what the handler changed in place in the object
\* the adapter handed out
ChangedInPlace(backend, st, c) ==
    IF /\ backend # "redis" /\ c.shared /\ c.call.kind = "set"
       /\ c.call.key \in DOMAIN st.store
    THEN [st EXCEPT !.store[c.call.key] = c.call.value[1]]
    ELSE st

\* the storage call of c is performed at t and the handler resumes:
\* [st, c]; an error of the adapter propagates out of the handler
Land(backend, st, c, t) ==
    Only({ IF a.raised
           THEN [st |-> ChangedInPlace(backend, a.st, c), c |-> Raise(c, "storage")]
           ELSE [st |-> a.st, c |-> Resume(c, a.value, t)] :
             a \in { Perform(backend, st, c.call, t) } })

\* the call c running alone, every storage call of it performed at t
RECURSIVE Run(_, _, _, _)
Run(backend, st, c, t) ==
    IF c.outcome # "running"
    THEN [st |-> st, c |-> c]
    ELSE Only({ Run(backend, n.st, n.c, t) : n \in { Land(backend, st, c, t) } })

\* ------------------------------------------------------------------ OblienChat
\* getGuest(ip, fingerprint) of the facade: [st, value]
OblienChat_getGuest(st, ip, fingerprint, t) ==
    LET f == IF fingerprint = NoFingerprint
             THEN [st |-> st, value |-> Null]
             ELSE LET x == StorageGet(st, FpKey(fingerprint), t) IN
                  IF IsNull(x.value) THEN x ELSE getGuest(x.st, x.value[1], t)
    IN IF ~IsNull(f.value) THEN f
       ELSE IF ip = NoIp THEN [st |-> f.st, value |-> Null]
       ELSE LET x == StorageGet(f.st, IpKey(ip), t)
                i == IF IsNull(x.value) THEN x ELSE getGuest(x.st, x.value[1], t)
            IN IF ~IsNull(i.value) THEN i
               ELSE getGuest(i.st, generateGuestId(ip), t)

\* what createGuestSession gives when it raises
Raised(st, error, calls) ==
    [st |-> st, outcome |-> "raised", error |-> error, calls |-> calls,
     result |-> Null]

\* faulty variant: a failed addSession is ignored
LinkSession_IgnoresNotFound(guest, a, sessionId) ==
    [st |-> a.st, outcome |-> "returned", error |-> "none",
     calls |-> <<guest.namespace>>,
     result |-> Some([sessionId |-> sessionId,
                      guest |-> [id |-> guest.id,
                                 namespace |-> guest.namespace,
                                 createdAt |-> guest.createdAt]])]

\* createGuestSession once addSession has given a
LinkSession(guest, a, sessionId) ==
    IF a.outcome = "raised"
    THEN Raised(a.st, "not-found", <<guest.namespace>>)
    ELSE [st |-> a.st, outcome |-> "returned", error |-> "none",
          calls |-> <<guest.namespace>>,
          result |-> Some([sessionId |-> sessionId,
                           guest |-> [id |-> guest.id,
                                      namespace |-> guest.namespace,
                                      createdAt |-> guest.createdAt]])]

\* faulty variant: the guest is deleted when the session cannot be created
CreateSession_Rollback(g, remote, sessionId, t2) ==
    IF g.outcome = "raised" THEN Raised(g.st, g.error, <<>>)
    ELSE IF remote = "invalid"
    THEN Raised(deleteGuest(g.st, g.guest[1].id).st, "invalid-argument", <<>>)
    ELSE IF remote = "failed"
    THEN Raised(deleteGuest(g.st, g.guest[1].id).st, "remote",
                <<g.guest[1].namespace>>)
    ELSE Only({ LinkSession(g.guest[1], a, sessionId) :
                  a \in { addSession(g.st, g.guest[1].id, sessionId, t2) } })

\* createGuestSession once getOrCreateGuest has given g: ChatSession.create,
\* then addSession at t2, when the remote call has answered
CreateSession(g, remote, sessionId, t2) ==
    IF g.outcome = "raised" THEN Raised(g.st, g.error, <<>>)
    ELSE IF remote = "invalid" THEN Raised(g.st, "invalid-argument", <<>>)
    ELSE IF remote = "failed" THEN Raised(g.st, "remote", <<g.guest[1].namespace>>)
    ELSE Only({ LinkSession(g.guest[1], a, sessionId) :
                  a \in { addSession(g.st, g.guest[1].id, sessionId, t2) } })

\* faulty variant: the ip is looked at when the remote call has been made
createGuestSession_LateCheck(st, ip, fingerprint, cb, remote, sessionId, t1, t2) ==
    IF ip = NoIp
    THEN Raised(st, "invalid-argument", <<"unknown">>)
    ELSE Only({ CreateSession(g, remote, sessionId, t2) :
                  g \in { getOrCreateGuest(st, ip, fingerprint, cb, t1) } })

\* createGuestSession({ip, fingerprint, ...}): [st, outcome, error, calls,
\* result]; calls lists the namespaces of the remote create-session calls
\* made; the guest is resolved at t1
createGuestSession(st, ip, fingerprint, cb, remote, sessionId, t1, t2) ==
    IF ip = NoIp
    THEN Raised(st, "invalid-argument", <<>>)
    ELSE Only({ CreateSession(g, remote, sessionId, t2) :
                  g \in { getOrCreateGuest(st, ip, fingerprint, cb, t1) } })

\* ------------------------------------------------------------------ observation
St == [store |-> store, expirations |-> expirations]

\* what a get would return, without dropping anything
Peek(st, key, t) == StorageGet(st, key, t).value

\* the record an index entry leads to
Resolve(st, key, t) ==
    IF IsNull(Peek(st, key, t)) THEN Null
    ELSE Peek(st, GuestKey(Peek(st, key, t)[1]), t)

StoredGuest(id) == Peek(St, GuestKey(id), now)

\* an index entry that is readable and leads to no readable record
Stale(st, key, t) == ~IsNull(Peek(st, key, t)) /\ IsNull(Resolve(st, key, t))

\* nothing readable under the fingerprint, the ip or the ip's guest id
Fresh(st, ip, fp, t) ==
    /\ fp # NoFingerprint => IsNull(Peek(st, FpKey(fp), t))
    /\ IsNull(Peek(st, IpKey(ip), t))
    /\ IsNull(Peek(st, GuestKey(generateGuestId(ip)), t))

\* the guest keys the Map holds
GuestKeys(st) == { k \in DOMAIN st.store : k[1] = "guest" }

FpArgs == Fingerprints \cup {NoFingerprint}

\* session ids handed to addSession, one of them never attached by Spec
SessionArgs == SessionIds \cup { "sess_2" }

\* the requests that may be in flight together, each served once
Slots == { "A", "B", "C" }
\* the two requests of a first visit
Racers == { "A", "B" }

\* ------------------------------------------------------------------ actions
Init ==
    /\ store = EmptyMap
    /\ expirations = EmptyMap
    /\ now = 0
    /\ inflight = [p \in Slots |-> Idle]

GetOrCreateGuest ==
    \E ip \in IPs, fp \in FpArgs, cb \in Callbacks :
        LET r == getOrCreateGuest(St, ip, fp, cb, now) IN
        /\ store' = r.st.store
        /\ expirations' = r.st.expirations
        /\ UNCHANGED <<now, inflight>>

AddSession ==
    \E id \in GuestIds, s \in SessionIds :
        LET r == addSession(St, id, s, now) IN
        /\ store' = r.st.store
        /\ expirations' = r.st.expirations
        /\ UNCHANGED <<now, inflight>>

DeleteGuest ==
    \E id \in GuestIds :
        LET r == deleteGuest(St, id) IN
        /\ store' = r.st.store
        /\ expirations' = r.st.expirations
        /\ UNCHANGED <<now, inflight>>

Cleanup ==
    LET r == cleanup(St, now) IN
    /\ store' = r.st.store
    /\ expirations' = r.st.expirations
    /\ UNCHANGED <<now, inflight>>

Tick ==
    /\ now < MaxTime
    /\ now' = now + 1
    /\ UNCHANGED <<store, expirations, inflight>>

Next ==
    \/ GetOrCreateGuest
    \/ AddSession
    \/ DeleteGuest
    \/ Cleanup
    \/ Tick

Spec == Init /\ [][Next]_vars

UpdateGuest ==
    \E id \in GuestIds, u \in Updates :
        \E r \in { updateGuest(St, id, u, now) } :
            /\ store' = r.st.store
            /\ expirations' = r.st.expirations
            /\ UNCHANGED <<now, inflight>>

NextUpdate ==
    \/ Next
    \/ UpdateGuest

SpecUpdate == Init /\ [][NextUpdate]_vars

\* the facade builds its GuestManager without onGuestCreated
FacadeCallback == "returns"

GetGuest ==
    \E ip \in IPs \cup {NoIp}, fp \in FpArgs :
        \E r \in { OblienChat_getGuest(St, ip, fp, now) } :
            /\ store' = r.st.store
            /\ expirations' = r.st.expirations
            /\ UNCHANGED <<now, inflight>>

\* the remote call answers at t2; a call that does not get to addSession
\* has made its last storage access at now (the clock advancing after it
\* is Tick)
CreateGuestSession ==
    \E ip \in IPs \cup {NoIp}, fp \in FpArgs, remote \in Remotes,
       s \in SessionIds, t2 \in now..MaxTime :
        /\ (ip = NoIp \/ remote # "created") => t2 = now
        /\ \E r \in { createGuestSession(St, ip, fp, FacadeCallback, remote, s, now, t2) } :
               /\ store' = r.st.store
               /\ expirations' = r.st.expirations
               /\ now' = t2
               /\ UNCHANGED inflight

\* the facade creating guest sessions, with cleanupGuests
NextFacade ==
    \/ CreateGuestSession
    \/ Cleanup
    \/ Tick

SpecFacade == Init /\ [][NextFacade]_vars

NextLookup ==
    \/ NextFacade
    \/ GetGuest

SpecLookup == Init /\ [][NextLookup]_vars

\* the resolver with session attachment and the sweep, nothing deleted by
\* hand
NextResolve ==
    \/ GetOrCreateGuest
    \/ AddSession
    \/ Cleanup
    \/ Tick

SpecResolve == Init /\ [][NextResolve]_vars

\* every call of GuestManager that writes a record, with the sweep
NextSweep ==
    \/ NextResolve
    \/ UpdateGuest

SpecSweep == Init /\ [][NextSweep]_vars

\* ------------------------------------------------------------------ calls in flight over RedisStorage
\* Every storage call of RedisStorage is a round trip to the server, so the
\* calls of several requests (of one process or of several processes that
\* share the server) interleave at their awaits. A request slot holds one
\* call; the storage call it waits for is performed, and the handler
\* resumes, in one step.

\* the storage call slot p waits for reaches the server and p resumes
Answered ==
    \E p \in Slots :
        /\ inflight[p].outcome = "running"
        /\ \E r \in { Land("redis", St, inflight[p], now) } :
               /\ store' = r.st.store
               /\ expirations' = r.st.expirations
               /\ inflight' = [inflight EXCEPT ![p] = r.c]
        /\ UNCHANGED now

\* a request that resolves a guest with a fingerprint arrives on a slot
\* that has served none
FirstResolve ==
    \E p \in Racers, ip \in IPs, fp \in Fingerprints, cb \in Callbacks :
        /\ inflight[p].outcome = "idle"
        /\ inflight' = [inflight EXCEPT ![p] = StartGetOrCreateGuest(ip, fp, cb)]
        /\ UNCHANGED <<store, expirations, now>>

\* two requests resolving guests, each served once
NextRace ==
    \/ FirstResolve
    \/ Answered
    \/ Tick

SpecRace == Init /\ [][NextRace]_vars

\* the guest the interleaved calls are about: one address, seen without
\* and with a fingerprint
SharedIps == { <<"1", "2", "3", "4">> }
SharedFpArgs == { "fp_a", NoFingerprint }
SharedGuestIds == { generateGuestId(ip) : ip \in SharedIps }

\* a request arrives on a slot that has served none
BeginGetOrCreateGuest ==
    \E p \in Slots, ip \in SharedIps, fp \in SharedFpArgs :
        /\ inflight[p].outcome = "idle"
        /\ inflight' = [inflight EXCEPT
                            ![p] = StartGetOrCreateGuest(ip, fp, FacadeCallback)]
        /\ UNCHANGED <<store, expirations, now>>

BeginAddSession ==
    \E p \in Slots, id \in SharedGuestIds, s \in SessionArgs :
        /\ inflight[p].outcome = "idle"
        /\ inflight' = [inflight EXCEPT ![p] = StartAddSession(id, s)]
        /\ UNCHANGED <<store, expirations, now>>

BeginUpdateGuest ==
    \E p \in Slots, id \in SharedGuestIds, u \in Updates :
        /\ inflight[p].outcome = "idle"
        /\ inflight' = [inflight EXCEPT ![p] = StartUpdateGuest(id, u)]
        /\ UNCHANGED <<store, expirations, now>>

BeginDeleteGuest ==
    \E p \in Slots, id \in SharedGuestIds :
        /\ inflight[p].outcome = "idle"
        /\ inflight' = [inflight EXCEPT ![p] = StartDeleteGuest(id)]
        /\ UNCHANGED <<store, expirations, now>>

\* three calls of GuestManager about one guest, arriving while others are
\* in flight
NextRedis ==
    \/ BeginGetOrCreateGuest
    \/ BeginAddSession
    \/ BeginUpdateGuest
    \/ BeginDeleteGuest
    \/ Answered
    \/ Tick

SpecRedis == Init /\ [][NextRedis]_vars

\* ------------------------------------------------------------------ claims
\* the instants at which nothing written at t has expired
Unexpired(t) == t..(t + Ttl)

\* the record a call r resolved or created
IdOf(r) == r.guest[1].id

\* C1: for ip1 # ip2 and a fingerprint f, on a store with nothing readable
\* for f, ip1 or ip2, getOrCreateGuest(ip1, f) and then, before anything
\* expires, getOrCreateGuest(ip2, f) give records with the same id, and the
\* second call returns normally and adds no guest record.
C1_StableByFingerprint ==
    \A ip1 \in IPs, ip2 \in IPs, f \in Fingerprints :
        (ip1 # ip2 /\ Fresh(St, ip1, f, now) /\ Fresh(St, ip2, f, now)) =>
            \A cb \in Callbacks, t2 \in Unexpired(now) :
            LET r1 == getOrCreateGuest(St, ip1, f, cb, now)
                r2 == getOrCreateGuest(r1.st, ip2, f, cb, t2)
            IN /\ r1.created
               /\ r2.outcome = "returned"
               /\ ~r2.created
               /\ IdOf(r2) = IdOf(r1)
               /\ GuestKeys(r2.st) = GuestKeys(r1.st)

\* C1 witness: a guest created under ip1 with fingerprint f has been found
\* again under ip2 through f: the ip2 index leads to ip1's record and no
\* record of ip2's own exists.
C1_Witness ==
    \E ip1 \in IPs, ip2 \in IPs, f \in Fingerprints :
        /\ ip1 # ip2
        /\ ~IsNull(StoredGuest(generateGuestId(ip1)))
        /\ StoredGuest(generateGuestId(ip1))[1].metadata.fingerprint = f
        /\ Peek(St, FpKey(f), now) = Some(generateGuestId(ip1))
        /\ Peek(St, IpKey(ip2), now) = Some(generateGuestId(ip1))
        /\ GuestKey(generateGuestId(ip2)) \notin DOMAIN store

\* C2: when getOrCreateGuest(ip2, f) finds a record through the fingerprint
\* index and the record's metadata.ip is another address ip1, the record
\* stored under the guest id after the call, and the record returned, have
\* metadata.ip = ip2, ip1 in metadata.previousIps and the mask of ip2 as ip.
C2_IpHistoryPersisted ==
    \A ip2 \in IPs, f \in Fingerprints :
        LET pre == Resolve(St, FpKey(f), now) IN
        (~IsNull(pre) /\ pre[1].metadata.ip # ip2) =>
            \A cb \in Callbacks :
            LET r == getOrCreateGuest(St, ip2, f, cb, now)
                rec == r.st.store[GuestKey(pre[1].id)]
            IN /\ r.outcome = "returned"
               /\ rec.metadata.ip = ip2
               /\ Contains(rec.metadata.previousIps, pre[1].metadata.ip)
               /\ rec.ip = _maskIP(ip2)
               /\ r.guest[1] = rec

\* C3: for an ip and fingerprints f1 # f2, on a store with nothing readable
\* for ip, f1 or f2, getOrCreateGuest(ip, f1) and then, before anything
\* expires, getOrCreateGuest(ip, f2) give records with the same id, and the
\* second call returns normally and adds no guest record.
C3_StableByIp ==
    \A ip \in IPs, f1 \in Fingerprints, f2 \in Fingerprints :
        (f1 # f2 /\ Fresh(St, ip, f1, now) /\ Fresh(St, ip, f2, now)) =>
            \A cb \in Callbacks, t2 \in Unexpired(now) :
            LET r1 == getOrCreateGuest(St, ip, f1, cb, now)
                r2 == getOrCreateGuest(r1.st, ip, f2, cb, t2)
            IN /\ r1.created
               /\ r2.outcome = "returned"
               /\ ~r2.created
               /\ IdOf(r2) = IdOf(r1)
               /\ GuestKeys(r2.st) = GuestKeys(r1.st)

\* C3 witness: a guest created under ip with fingerprint f1 has been found
\* again under ip with f2: both fingerprint indexes lead to the one record.
C3_Witness ==
    \E ip \in IPs, f1 \in Fingerprints, f2 \in Fingerprints :
        /\ f1 # f2
        /\ ~IsNull(StoredGuest(generateGuestId(ip)))
        /\ StoredGuest(generateGuestId(ip))[1].metadata.fingerprint = f1
        /\ Peek(St, FpKey(f1), now) = Some(generateGuestId(ip))
        /\ Peek(St, FpKey(f2), now) = Some(generateGuestId(ip))
        /\ Peek(St, IpKey(ip), now) = Some(generateGuestId(ip))
        /\ Cardinality(GuestKeys(St)) = 1

\* C4: when getOrCreateGuest(ip, f2) finds a record through the ip index and
\* the record's metadata.fingerprint is another fingerprint f1, the record
\* stored under the guest id after the call has metadata.fingerprint = f2
\* and f1 in metadata.previousFingerprints.
C4_FingerprintHistoryPersisted ==
    \A ip \in IPs, f2 \in Fingerprints :
        LET byFp == Resolve(St, FpKey(f2), now)
            pre == Resolve(St, IpKey(ip), now)
        IN (/\ IsNull(byFp)
            /\ ~IsNull(pre)
            /\ pre[1].metadata.fingerprint \in Fingerprints \ {f2}) =>
            \A cb \in Callbacks :
            LET r == getOrCreateGuest(St, ip, f2, cb, now)
                rec == r.st.store[GuestKey(pre[1].id)]
            IN /\ r.outcome = "returned"
               /\ rec.metadata.fingerprint = f2
               /\ Contains(rec.metadata.previousFingerprints,
                           pre[1].metadata.fingerprint)

C6_NewIdentityOnDoubleChange ==
    \A ip1 \in IPs, ip2 \in IPs, f1 \in Fingerprints, f2 \in Fingerprints :
        (/\ ip1 # ip2 /\ f1 # f2
         /\ Fresh(St, ip1, f1, now) /\ Fresh(St, ip2, f2, now)) =>
            \A cb \in Callbacks, t2 \in Unexpired(now) :
            LET r1 == getOrCreateGuest(St, ip1, f1, cb, now)
                r2 == getOrCreateGuest(r1.st, ip2, f2, cb, t2)
            IN /\ r1.created /\ r2.created
               /\ cb # "throws" => r1.outcome = "returned" /\ r2.outcome = "returned"
               /\ IdOf(r1) # IdOf(r2)
               /\ Peek(r2.st, GuestKey(IdOf(r1)), t2) = Some(r1.guest[1])
               /\ Peek(r2.st, GuestKey(IdOf(r2)), t2) = Some(r2.guest[1])
               /\ Peek(r2.st, IpKey(ip1), t2) = Some(IdOf(r1))
               /\ Peek(r2.st, FpKey(f1), t2) = Some(IdOf(r1))
               /\ Peek(r2.st, IpKey(ip2), t2) = Some(IdOf(r2))
               /\ Peek(r2.st, FpKey(f2), t2) = Some(IdOf(r2))
               /\ store = EmptyMap => Cardinality(GuestKeys(r2.st)) = 2

\* C6 witness: two guests, each created under its own ip and fingerprint,
\* each with its own index entries.
C6_Witness ==
    \E ip1 \in IPs, ip2 \in IPs, f1 \in Fingerprints, f2 \in Fingerprints :
        /\ ip1 # ip2 /\ f1 # f2
        /\ ~IsNull(StoredGuest(generateGuestId(ip1)))
        /\ ~IsNull(StoredGuest(generateGuestId(ip2)))
        /\ StoredGuest(generateGuestId(ip1))[1].metadata.fingerprint = f1
        /\ StoredGuest(generateGuestId(ip2))[1].metadata.fingerprint = f2
        /\ Peek(St, IpKey(ip1), now) = Some(generateGuestId(ip1))
        /\ Peek(St, FpKey(f1), now) = Some(generateGuestId(ip1))
        /\ Peek(St, IpKey(ip2), now) = Some(generateGuestId(ip2))
        /\ Peek(St, FpKey(f2), now) = Some(generateGuestId(ip2))

\* C7: when the fingerprint index of f leads to a stored record A and the ip
\* index of ip to another stored record B, getOrCreateGuest(ip, f) returns A,
\* creates nothing, and leaves what is stored under B's id as it was.
C7_FingerprintWinsTie ==
    \A ip \in IPs, f \in Fingerprints :
        LET a == Resolve(St, FpKey(f), now)
            b == Resolve(St, IpKey(ip), now)
        IN (~IsNull(a) /\ ~IsNull(b) /\ a[1].id # b[1].id) =>
            \A cb \in Callbacks :
            LET r == getOrCreateGuest(St, ip, f, cb, now) IN
            /\ r.outcome = "returned"
            /\ ~r.created
            /\ IdOf(r) = a[1].id
            /\ GuestKeys(r.st) = GuestKeys(St)
            /\ r.st.store[GuestKey(b[1].id)] = b[1]
            /\ r.st.expirations[GuestKey(b[1].id)] = expirations[GuestKey(b[1].id)]

\* C7 witness: the two indexes of a request lead to two different stored
\* records, the request's ip is not the one the fingerprint's record was
\* last stored with, and the call gives the fingerprint's record.
C7_Witness ==
    \E ip \in IPs, f \in Fingerprints :
        LET a == Resolve(St, FpKey(f), now)
            b == Resolve(St, IpKey(ip), now)
        IN /\ ~IsNull(a) /\ ~IsNull(b) /\ a[1].id # b[1].id
           /\ a[1].metadata.ip # ip
           /\ IdOf(getOrCreateGuest(St, ip, f, "returns", now)) = a[1].id

StaleFor(ip, fp) ==
    \/ fp # NoFingerprint /\ Stale(St, FpKey(fp), now)
    \/ Stale(St, IpKey(ip), now)

\* C8 as claimed: when the fingerprint index or the ip index of a request
\* leads to an id with no stored record, getOrCreateGuest raises no
\* not-found error and, once it is over, every index entry of the request's
\* ip and fingerprint leads to a stored record.
C8_StaleIndexHealed ==
    \A ip \in IPs, fp \in FpArgs :
        StaleFor(ip, fp) =>
            \A cb \in Callbacks :
            LET r == getOrCreateGuest(St, ip, fp, cb, now) IN
            /\ r.error # "not-found"
            /\ ~IsNull(Resolve(r.st, IpKey(ip), now))
            /\ fp # NoFingerprint => ~IsNull(Resolve(r.st, FpKey(fp), now))

\* C8 amended: under the same condition getOrCreateGuest raises no not-found
\* error; it gives the record of the first layer that leads to a stored
\* record (fingerprint, then ip) and creates one when neither does; once it
\* is over the fingerprint index of the request leads to the record given,
\* and so does the ip index unless the record was found by fingerprint with
\* metadata.ip equal to the request's ip: then the ip index is left as it
\* was, stale or not.
C8_StaleIndexIsMiss ==
    \A ip \in IPs, fp \in FpArgs :
        StaleFor(ip, fp) =>
            \A cb \in Callbacks :
            LET r == getOrCreateGuest(St, ip, fp, cb, now)
                byFp == IF fp = NoFingerprint THEN Null
                        ELSE Resolve(St, FpKey(fp), now)
                byIp == Resolve(St, IpKey(ip), now)
                untouched == ~IsNull(byFp) /\ byFp[1].metadata.ip = ip
            IN /\ r.error # "not-found"
               /\ ~IsNull(r.guest)
               /\ ~IsNull(byFp) => ~r.created /\ IdOf(r) = byFp[1].id
               /\ IsNull(byFp) /\ ~IsNull(byIp) => ~r.created /\ IdOf(r) = byIp[1].id
               /\ IsNull(byFp) /\ IsNull(byIp) =>
                      r.created /\ IdOf(r) = generateGuestId(ip)
               /\ Peek(r.st, GuestKey(IdOf(r)), now) = r.guest
               /\ fp # NoFingerprint => Peek(r.st, FpKey(fp), now) = Some(IdOf(r))
               /\ ~untouched => Peek(r.st, IpKey(ip), now) = Some(IdOf(r))
               /\ untouched => /\ Peek(r.st, IpKey(ip), now) = Peek(St, IpKey(ip), now)
                               /\ Stale(r.st, IpKey(ip), now)

\* C8 witness: a request whose fingerprint index is stale while its ip index
\* leads to a record, one whose two indexes are both stale, and one whose
\* fingerprint leads to a record stored with the request's ip while the ip
\* index is stale.
C8_Witness ==
    /\ \E ip \in IPs, fp \in Fingerprints :
        Stale(St, FpKey(fp), now) /\ ~IsNull(Resolve(St, IpKey(ip), now))
    /\ \E ip \in IPs, fp \in Fingerprints :
        /\ Stale(St, FpKey(fp), now) /\ Stale(St, IpKey(ip), now)
        /\ getOrCreateGuest(St, ip, fp, "returns", now).created
    /\ \E ip \in IPs, fp \in Fingerprints :
        /\ Stale(St, IpKey(ip), now)
        /\ ~IsNull(Resolve(St, FpKey(fp), now))
        /\ Resolve(St, FpKey(fp), now)[1].metadata.ip = ip

\* what the Map and its expiry bookkeeping hold under key
Entry(st, key) ==
    <<IF key \in DOMAIN st.store THEN Some(st.store[key]) ELSE Null,
      IF key \in DOMAIN st.expirations THEN Some(st.expirations[key]) ELSE Null>>

\* neither index of the request leads to a stored record
NoExisting(ip, fp) ==
    /\ fp # NoFingerprint => IsNull(Resolve(St, FpKey(fp), now))
    /\ IsNull(Resolve(St, IpKey(ip), now))

C10_CallbackFailureSwallowed ==
    \A ip \in IPs, fp \in FpArgs :
        LET r == getOrCreateGuest(St, ip, fp, "throws", now)
            id == generateGuestId(ip)
        IN r.created =>
            /\ r.outcome = "returned"
            /\ Peek(r.st, GuestKey(id), now) = r.guest
            /\ Peek(r.st, IpKey(ip), now) = Some(id)
            /\ fp # NoFingerprint => Peek(r.st, FpKey(fp), now) = Some(id)

Count(list, x) == Cardinality({ i \in 1..Len(list) : list[i] = x })

Without(list, x) == LET Keep(e) == e # x IN SelectSeq(list, Keep)

\* C11: for a stored guest, addSession(id, s) called two or three times in
\* sequence (the third a ttl later), whatever the list held before (here
\* after an addSession of s0), leaves a stored sessions list that holds s exactly once, with the
\* other elements as they were and in the same order; the calls after the
\* first change nothing of the list.
C11_AddSessionIdempotent ==
    \A id \in GuestIds :
        ~IsNull(StoredGuest(id)) =>
            \A s0 \in SessionArgs, s \in SessionArgs :
            LET r0 == addSession(St, id, s0, now)
                r1 == addSession(r0.st, id, s, now)
                r2 == addSession(r1.st, id, s, now)
                r3 == addSession(r2.st, id, s, now + Ttl)
                before == r0.guest[1].sessions
                Done(r) ==
                    /\ r.outcome = "returned"
                    /\ r.st.store[GuestKey(id)] = r.guest[1]
                    /\ r.guest[1].sessions = r1.guest[1].sessions
            IN /\ Done(r1) /\ Done(r2) /\ Done(r3)
               /\ Count(r1.guest[1].sessions, s) = 1
               /\ Without(r1.guest[1].sessions, s) = Without(before, s)
               /\ Contains(before, s) => r1.guest[1].sessions = before

\* C11 witness: a guest whose sessions list holds the one session id, and
\* attaching that id again leaves the list as it is.
C11_Witness ==
    \E id \in GuestIds, s \in SessionIds :
        /\ ~IsNull(StoredGuest(id))
        /\ StoredGuest(id)[1].sessions = <<s>>
        /\ StoredGuest(id)[1].lastSeen > StoredGuest(id)[1].createdAt
        /\ addSession(St, id, s, now).guest[1].sessions = <<s>>

\* st holds nothing that St does not hold, and differs from St at most by
\* the expired entry of key having been dropped
NothingWritten(st, key) ==
    /\ DOMAIN st.store \subseteq DOMAIN store
    /\ DOMAIN st.expirations \subseteq DOMAIN expirations
    /\ \A k \in DOMAIN st.store : st.store[k] = store[k]
    /\ \A k \in DOMAIN st.expirations : st.expirations[k] = expirations[k]
    /\ \A k \in (DOMAIN store) \ (DOMAIN st.store) :
           k = key /\ StorageExpired(St, k, now)
    /\ \A k \in (DOMAIN expirations) \ (DOMAIN st.expirations) :
           k = key /\ StorageExpired(St, k, now)

\* C12: on an id with no stored, unexpired record, addSession(id, s) and
\* updateGuest(id, fields) raise not-found; no record is created, no index
\* entry changes and no stored value or expiry changes (an expired record
\* still held under the id may be dropped by the read).
C12_NotFoundWritesNothing ==
    \A id \in GuestIds :
        IsNull(StoredGuest(id)) =>
            \A s \in SessionIds, u \in Updates :
            LET a == addSession(St, id, s, now)
                b == updateGuest(St, id, u, now)
            IN /\ a.outcome = "raised" /\ IsNull(a.guest)
               /\ b.raised /\ IsNull(b.value)
               /\ NothingWritten(a.st, GuestKey(id))
               /\ NothingWritten(b.st, GuestKey(id))
               /\ IsNull(Peek(a.st, GuestKey(id), now))
               /\ IsNull(Peek(b.st, GuestKey(id), now))

\* C12 witness: a guest id whose record is gone (one expired and still held
\* by the Map, the other deleted) while an index entry still names it.
C12_Witness ==
    /\ \E id \in GuestIds :
        /\ GuestKey(id) \in DOMAIN store
        /\ IsNull(StoredGuest(id))
        /\ addSession(St, id, "sess_1", now).outcome = "raised"
    /\ \E id \in GuestIds, ip \in IPs :
        /\ GuestKey(id) \notin DOMAIN store
        /\ Peek(St, IpKey(ip), now) = Some(id)
        /\ addSession(St, id, "sess_1", now).outcome = "raised"

\* C13: updateGuest(id, {metadata: m}) on a stored record with metadata M
\* stores a record whose metadata has every key of m with m's value and
\* every key of M that m lacks with its old value.
C13_UpdateMergesMetadata ==
    \A id \in GuestIds, m \in MetadataBags :
        ~IsNull(StoredGuest(id)) =>
            LET old == StoredGuest(id)[1].metadata
                r == updateGuest(St, id, [metadata |-> m], now)
                new == r.st.store[GuestKey(id)].metadata
            IN /\ ~r.raised
               /\ \A k \in DOMAIN m : k \in DOMAIN new /\ new[k] = m[k]
               /\ \A k \in (DOMAIN old) \ (DOMAIN m) :
                      k \in DOMAIN new /\ new[k] = old[k]

\* C14: OblienChat.getGuest(ip, f?) returns record R exactly when
\* getOrCreateGuest(ip, f) in the same state would return the existing
\* record R without creating one, and returns null exactly when
\* getOrCreateGuest would create a record.
C14_LookupAgreesWithResolution ==
    \A ip \in IPs, fp \in FpArgs :
        LET l == OblienChat_getGuest(St, ip, fp, now).value
            r == getOrCreateGuest(St, ip, fp, FacadeCallback, now)
        IN /\ IsNull(l) <=> r.created
           /\ ~r.created =>
                  /\ l = Peek(St, GuestKey(IdOf(r)), now)
                  /\ l[1].id = IdOf(r)

\* the store with the record under id given the lastSeen ls through the
\* storage adapter, as a test of the sweep arranges it
Aged(st, id, ls, t) ==
    StorageSet(st, GuestKey(id), [st.store[GuestKey(id)] EXCEPT !.lastSeen = ls],
               Ttl, t)

\* what C15 says of a cleanup() that took st0 to r.st and returned r.value
Swept(st0, r) ==
    /\ \A g \in getAllGuests(r.st, now) : now - g.lastSeen <= Ttl
    /\ \A g \in getAllGuests(st0, now) :
           now - g.lastSeen <= Ttl =>
               Entry(r.st, GuestKey(g.id)) = Entry(st0, GuestKey(g.id))
    /\ \A g \in getAllGuests(st0, now) :
           now - g.lastSeen > Ttl => IsNull(Peek(r.st, GuestKey(g.id), now))
    /\ r.value = Cardinality(GuestKeys(st0) \ GuestKeys(r.st))

\* C15: after cleanup(), getAllGuests() returns no record older than ttl,
\* every record of age at most ttl is stored as it was, and the count
\* returned is the number of records removed; for the store as the calls
\* left it, and for that store with one record's lastSeen set through the
\* storage adapter to just beyond ttl, to ttl and to now.
C15_SweepRemovesAndCounts ==
    /\ Swept(St, cleanup(St, now))
    /\ \A id \in GuestIds :
           ~IsNull(StoredGuest(id)) =>
               \A ls \in { now - Ttl - 1, now - Ttl, now } :
                   LET st0 == Aged(St, id, ls, now) IN
                   Swept(st0, cleanup(st0, now))

\* C15 witness: two guests are stored; with the lastSeen of one set back
\* beyond ttl the sweep removes that one, returns 1 and keeps the other.
C15_Witness ==
    \E id \in GuestIds, other \in GuestIds :
        /\ id # other
        /\ ~IsNull(StoredGuest(id)) /\ ~IsNull(StoredGuest(other))
        /\ now - StoredGuest(other)[1].lastSeen = Ttl
        /\ LET st0 == Aged(St, id, now - Ttl - 1, now)
               r == cleanup(st0, now)
           IN /\ r.value = 1
              /\ GuestKey(id) \notin DOMAIN r.st.store
              /\ Entry(r.st, GuestKey(other)) = Entry(St, GuestKey(other))

\* the instants at which the remote call of a createGuestSession started
\* at t may answer: within the ttl, or when the guest has expired
Answers(t) == t..(t + Ttl + 1)

\* C16: createGuestSession without an ip raises an invalid-argument error,
\* leaves the storage exactly as it was and makes no remote call.
C16_MissingIpFailsEarly ==
    \A fp \in FpArgs, cb \in Callbacks, remote \in Remotes, s \in SessionIds :
        LET r == createGuestSession(St, NoIp, fp, cb, remote, s, now, now) IN
        /\ r.outcome = "raised"
        /\ r.error = "invalid-argument"
        /\ IsNull(r.result)
        /\ r.st = St
        /\ r.calls = <<>>

\* C16 witness: guests and index entries are stored, and a
\* createGuestSession without ip has raised and left them.
C16_Witness ==
    /\ \E id \in GuestIds : ~IsNull(StoredGuest(id))
    /\ \E f \in Fingerprints : ~IsNull(Peek(St, FpKey(f), now))
    /\ createGuestSession(St, NoIp, "fp_a", "returns", "created", "sess_1",
                          now, now).error = "invalid-argument"

C18_SessionFailureShape ==
    \A ip \in IPs, fp \in FpArgs, s \in SessionIds :
        LET g == getOrCreateGuest(St, ip, fp, FacadeCallback, now) IN
        /\ \A remote \in Remotes \ {"created"} :
               LET r == createGuestSession(St, ip, fp, FacadeCallback, remote, s,
                                           now, now)
               IN /\ r.outcome = "raised"
                  /\ IsNull(r.result)
                  /\ r.st = g.st
                  /\ Peek(r.st, GuestKey(IdOf(g)), now) = g.guest
                  /\ ~g.created =>
                         r.st.store[GuestKey(IdOf(g))].sessions =
                             store[GuestKey(IdOf(g))].sessions
        /\ \A t2 \in { now, now + Ttl + 1 } :
               LET r == createGuestSession(St, ip, fp, FacadeCallback, "created", s,
                                           now, t2)
               IN /\ r.outcome = "raised" => IsNull(r.result)
                  /\ r.outcome # "raised" =>
                         /\ r.outcome = "returned"
                         /\ ~IsNull(r.result)
                         /\ Contains(r.st.store[GuestKey(r.result[1].guest.id)].sessions,
                                     r.result[1].sessionId)

\* C18 witness: a guest with a session is stored, and a createGuestSession
\* for it whose remote call fails raises and leaves that sessions list.
C18_Witness ==
    \E ip \in IPs, s \in SessionIds :
        LET pre == Resolve(St, IpKey(ip), now)
            r == createGuestSession(St, ip, NoFingerprint, FacadeCallback,
                                    "failed", s, now, now)
        IN /\ ~IsNull(pre)
           /\ pre[1].sessions = <<s>>
           /\ r.error = "remote"
           /\ r.calls = <<pre[1].namespace>>
           /\ r.st.store[GuestKey(pre[1].id)].sessions = <<s>>

\* list starts with the elements of prefix
IsPrefix(prefix, list) ==
    /\ Len(prefix) <= Len(list)
    /\ \A i \in 1..Len(prefix) : list[i] = prefix[i]

\* C19: when a guest record is stored and the ip index of its ip or the
\* fingerprint index of its fingerprint does not lead to it, a
\* getOrCreateGuest with the guest's ip or fingerprint leaves the record
\* stored with its sessions and createdAt, the keys of its metadata and
\* the history lists in it.
C19_IndexAbsenceLosesNothing ==
    \A id \in GuestIds :
        ~IsNull(StoredGuest(id)) =>
            LET rec == StoredGuest(id)[1] IN
            \A ip \in IPs, fp \in FpArgs :
                (/\ \/ ip = rec.metadata.ip
                    \/ fp # NoFingerprint /\ fp = rec.metadata.fingerprint
                 /\ \/ Peek(St, IpKey(rec.metadata.ip), now) # Some(id)
                    \/ /\ rec.metadata.fingerprint # NoFingerprint
                       /\ Peek(St, FpKey(rec.metadata.fingerprint), now) # Some(id)) =>
                    \A cb \in Callbacks :
                    LET after == Peek(getOrCreateGuest(St, ip, fp, cb, now).st,
                                      GuestKey(id), now)
                    IN /\ ~IsNull(after)
                       /\ after[1].sessions = rec.sessions
                       /\ after[1].createdAt = rec.createdAt
                       /\ DOMAIN rec.metadata \subseteq DOMAIN after[1].metadata
                       /\ IsPrefix(rec.metadata.previousIps,
                                   after[1].metadata.previousIps)
                       /\ IsPrefix(rec.metadata.previousFingerprints,
                                   after[1].metadata.previousFingerprints)

\* C20: over every call, a guest id that has a stored record before the
\* call and after it has the same createdAt in both, and the id field of a
\* stored record is the id it is stored under.
C20_IdAndCreatedAtImmutable ==
    [][\A id \in GuestIds :
           (~IsNull(StoredGuest(id)) /\ ~IsNull(StoredGuest(id)')) =>
               /\ StoredGuest(id)[1].id = id
               /\ (StoredGuest(id)')[1].id = id
               /\ (StoredGuest(id)')[1].createdAt = StoredGuest(id)[1].createdAt]_vars

NoDuplicates(list) ==
    \A i \in 1..Len(list), j \in 1..Len(list) : list[i] = list[j] => i = j

\* C21: over every call of getOrCreateGuest, addSession and cleanup, a guest
\* id that has a stored record before the call and after it has a sessions
\* list after the call that starts with the list before it, and the list
\* holds no session id twice.
C21_SessionsAppendOnly ==
    [][\A id \in GuestIds :
           (~IsNull(StoredGuest(id)) /\ ~IsNull(StoredGuest(id)')) =>
               /\ IsPrefix(StoredGuest(id)[1].sessions, (StoredGuest(id)')[1].sessions)
               /\ NoDuplicates((StoredGuest(id)')[1].sessions)]_vars

ExpiryOf(st, key) == Entry(st, key)[2]

\* C26: whenever a guest record is readable, the ip index entry of its
\* metadata.ip and, when it has a fingerprint, the fingerprint index entry
\* of its metadata.fingerprint have the expiry instant of the record.
C26_ExpireTogether ==
    \A id \in GuestIds :
        ~IsNull(StoredGuest(id)) =>
            LET rec == StoredGuest(id)[1] IN
            /\ ExpiryOf(St, IpKey(rec.metadata.ip)) = ExpiryOf(St, GuestKey(id))
            /\ rec.metadata.fingerprint # NoFingerprint =>
                   ExpiryOf(St, FpKey(rec.metadata.fingerprint)) =
                       ExpiryOf(St, GuestKey(id))

Keys ==
    { GuestKey(id) : id \in GuestIds } \cup { FpKey(f) : f \in Fingerprints }
        \cup { IpKey(ip) : ip \in IPs }

\* the adapter holding the entries of st: the Redis server holds them as
\* JSON texts
Holding(backend, st) ==
    IF backend = "redis"
    THEN [store |-> [k \in DOMAIN st.store |-> JSONstringify(st.store[k])],
          expirations |-> st.expirations]
    ELSE st

\* C25: for each of the three adapters holding the entries stored,
\* delete(key) returns true exactly when get(key) would have returned a
\* value, and get(key) after it returns null.
C25_DeleteReportsPresence ==
    \A b \in Backends, k \in Keys :
        LET st0 == Holding(b, St)
            d == Perform(b, st0, DeleteCall(k), now)
        IN /\ (d.value = Some(TRUE)) <=>
                  ~IsNull(Perform(b, st0, GetCall(k), now).value)
           /\ IsNull(Perform(b, d.st, GetCall(k), now).value)

\* C24: from every state both managers have reached by equal steps, each
\* call of getOrCreateGuest, addSession and updateGuest gives over
\* NodeCacheStorage the result and the stored entries it gives over
\* InMemoryStorage.
C24_BackendsEquivalent ==
    /\ \A ip \in IPs, fp \in FpArgs, cb \in Callbacks :
           Run("nodecache", St, StartGetOrCreateGuest(ip, fp, cb), now) =
               Run("memory", St, StartGetOrCreateGuest(ip, fp, cb), now)
    /\ \A id \in GuestIds, s \in SessionIds :
           Run("nodecache", St, StartAddSession(id, s), now) =
               Run("memory", St, StartAddSession(id, s), now)
    /\ \A id \in GuestIds, u \in Updates :
           Run("nodecache", St, StartUpdateGuest(id, u), now) =
               Run("memory", St, StartUpdateGuest(id, u), now)

\* a call that is over
Over(c) == c.outcome \in { "returned", "raised" }

\* C27: a getOrCreateGuest whose storage calls interleave with those of
\* other calls (deleteGuest among them) and with the expiry of entries ends
\* by returning a guest record; it never raises, and in particular never
\* raises the not-found error of updateGuest.
C27_RemovalRaceHarmless ==
    \A p \in Slots :
        (inflight[p].op = "getOrCreateGuest" /\ Over(inflight[p])) =>
            /\ inflight[p].outcome = "returned"
            /\ inflight[p].error # "not-found"
            /\ ~IsNull(inflight[p].result)

\* the sessions of the record the server holds under the guest id
SessionsHeld(id) == JSONparse(store[GuestKey(id)]).sessions

\* C29: when an addSession(id, s1) has returned and the server holds a
\* record under id, the record's sessions contain s1 together with the s2
\* of every other addSession(id, s2) that has returned, and they contain s1
\* when a getOrCreateGuest that resolved (did not create) the guest id has
\* returned.
C29_NoLostSession ==
    \A p \in Slots, q \in Slots :
        LET a == inflight[p]
            b == inflight[q]
        IN (/\ p # q
            /\ a.op = "addSession" /\ a.outcome = "returned"
            /\ GuestKey(a.guestId) \in DOMAIN store) =>
               /\ (/\ b.op = "addSession" /\ b.outcome = "returned"
                   /\ b.guestId = a.guestId /\ b.sessionId # a.sessionId) =>
                      /\ Contains(SessionsHeld(a.guestId), a.sessionId)
                      /\ Contains(SessionsHeld(a.guestId), b.sessionId)
               /\ (/\ b.op = "getOrCreateGuest" /\ b.outcome = "returned"
                   /\ ~b.created /\ b.result[1].id = a.guestId) =>
                      Contains(SessionsHeld(a.guestId), a.sessionId)

\* C22: from one state of the storage to the next, the lastSeen of the
\* record held under a guest id does not decrease, whatever the
\* interleaving of the storage calls of getOrCreateGuest, updateGuest and
\* addSession and of the clock's ticks.
C22_LastSeenMonotonic ==
    [][\A id \in SharedGuestIds :
           (GuestKey(id) \in DOMAIN store /\ GuestKey(id) \in DOMAIN store') =>
               JSONparse(store'[GuestKey(id)]).lastSeen >=
                   JSONparse(store[GuestKey(id)]).lastSeen]_vars

\* nothing the server holds has expired at t
NothingExpired(st, t) == \A k \in DOMAIN st.store : ~RedisExpired(st, k, t)

\* what the server answers to get(key) at t
Held(st, key, t) == RedisGet(st, key, t).value

\* C28: when two getOrCreateGuest calls with the same fingerprint f, begun
\* on a server holding nothing and interleaved in any way, are both over
\* (each has returned or raised), then at every instant t at which nothing
\* the server holds has expired the fingerprint index holds an id, and
\* getOrCreateGuest(ip1, f) run alone at t and then getOrCreateGuest(ip2, f)
\* run alone both return the record of that id, create nothing and add no
\* guest key.
C28_FirstVisitsConverge ==
    \A f \in Fingerprints, t \in Unexpired(now) :
        (/\ \A p \in Racers : Over(inflight[p]) /\ inflight[p].fingerprint = f
         /\ NothingExpired(St, t)) =>
            /\ ~IsNull(Held(St, FpKey(f), t))
            /\ \A ip1 \in IPs, ip2 \in IPs, cb \in Callbacks :
                   \E r1 \in { Run("redis", St, StartGetOrCreateGuest(ip1, f, cb), t) } :
                   \E r2 \in { Run("redis", r1.st, StartGetOrCreateGuest(ip2, f, cb), t) } :
                       /\ r1.c.outcome = "returned" /\ r2.c.outcome = "returned"
                       /\ ~r1.c.created /\ ~r2.c.created
                       /\ r1.c.result[1].id = Held(St, FpKey(f), t)[1]
                       /\ r2.c.result[1].id = Held(St, FpKey(f), t)[1]
                       /\ GuestKeys(r2.st) = GuestKeys(St)
====
